---- MODULE Spec2Model ----
(***************************************************************************)
(* Model of src/etl.py: the loader (load_and_process_data), the embedder   *)
(* (get_text_embeddings), the sink (save_to_mongodb) and the __main__      *)
(* driver that chains them.                                                *)
(*                                                                         *)
(* Encoding of values.  A job-title cell is an integer: NaN (0) is the     *)
(* missing marker of pandas, 1.. are the distinct titles, and the  *)
(* integer order of the text keys stands for the lexicographic order that  *)
(* sorted() uses.  str() of a cell of a numeric column is a text different *)
(* from the cell (5 versus "5"); str() of a cell of a text column is the   *)
(* cell.  An embedding vector is the integer VecBase + key.                *)
(***************************************************************************)
EXTENDS Integers, Sequences, FiniteSets, TLC

\* ---- bounds of the model ----
MaxRows == 3            \* rows of the input file
MaxTitle == 2           \* distinct job titles of the input file
MaxText == 3            \* distinct texts a direct call of get_text_embeddings draws from
MaxTexts == 4           \* length of the list given to get_text_embeddings directly
MaxBatchSize == 3       \* batch_size argument of a direct call
MaxPreexisting == 1     \* documents in the collection before the run
\* the two batch sizes of the program, scaled down (20 and 5000 in the source)
EMBEDDING_BATCH_SIZE == 1
SINK_BATCH_SIZE == 2

\* ---- value encoding ----
NaN == 0
None == -1
Absent == -2
NumText == 50
NanText == 99
VecBase == 100

VARIABLES
  pc,                 \* position of the program
  caller,             \* "main": run of the script; "direct": get_text_embeddings called on its own
  file,               \* what pd.read_csv found at the path
  df_selected,        \* the DataFrame of load_and_process_data
  df_processed,       \* return value of load_and_process_data: "pending", "None", "DataFrame"
  texts,              \* argument of get_text_embeddings
  batch_size,         \* argument of get_text_embeddings
  model,              \* Vertex AI model: "unset", "loaded", "error"
  unique_texts_to_embed,
  i,                  \* loop index of the embedding loop
  embeddings_map,     \* local map of get_text_embeddings
  job_title_to_embedding_map,  \* value returned by get_text_embeddings
  requests,           \* calls received by the embedding service, in order, with their outcome
  pauses,             \* number of time.sleep(0.5) taken
  client,             \* MongoClient of save_to_mongodb: "None", "open", "closed"
  records,            \* df converted to documents
  sink_i,             \* loop index of the insert loop
  collection,         \* content of the target collection
  ops,                \* operations issued to the document store, in order, with their outcome
  calls,              \* functions of etl.py entered so far
  outcome             \* final narration of __main__: "running", "finished", "failed"

vars == <<pc, caller, file, df_selected, df_processed, texts, batch_size, model,
          unique_texts_to_embed, i, embeddings_map, job_title_to_embedding_map,
          requests, pauses, client, records, sink_i, collection, ops, calls, outcome>>

loadVars == <<file, df_selected, df_processed>>
embedVars == <<texts, batch_size, model, unique_texts_to_embed, i, embeddings_map,
               job_title_to_embedding_map, requests, pauses>>
sinkVars == <<client, records, sink_i, collection, ops>>

\* ---- helpers ----
Range(s) == {s[k] : k \in DOMAIN s}
Min(a, b) == IF a < b THEN a ELSE b
EmptyMap == [k \in {} |-> NaN]
Keys(m) == DOMAIN m

\* Python slice s[lo:hi] (0-based, hi exclusive, clipped to the length)
Slice(s, lo, hi) == SubSeq(s, lo + 1, Min(hi, Len(s)))

\* pd.notna
notna(x) == x # NaN

\* str(title) at line 181
str(x, numeric) ==
  IF x = NaN THEN NanText
  ELSE IF numeric THEN NumText + x
  ELSE x

\* Series.unique(): distinct values in order of first appearance, NaN included
RECURSIVE unique(_)
unique(s) ==
  IF s = <<>> THEN <<>>
  ELSE LET front == SubSeq(s, 1, Len(s) - 1)
           last == s[Len(s)]
       IN IF last \in Range(front) THEN unique(front)
          ELSE Append(unique(front), last)

\* sorted(list(set(texts)))
RECURSIVE SortSet(_)
SortSet(S) ==
  IF S = {} THEN <<>>
  ELSE LET m == CHOOSE x \in S : \A y \in S : x <= y
       IN <<m>> \o SortSet(S \ {m})

\* the mutant keeps the order of first appearance instead of sorting
sorted_unique_unsorted(t) == unique(t)
sorted_unique(t) == SortSet(Range(t))

RECURSIVE notna_strs(_, _)
notna_strs(u, numeric) ==
  IF u = <<>> THEN <<>>
  ELSE LET front == notna_strs(SubSeq(u, 1, Len(u) - 1), numeric)
           last == u[Len(u)]
       IN IF notna(last) THEN Append(front, str(last, numeric)) ELSE front

\* the mutant drops the pd.notna filter
job_titles_list_nofilter(u, numeric) == [k \in DOMAIN u |-> str(u[k], numeric)]
\* [str(title) for title in unique_job_titles if pd.notna(title)]
job_titles_list(u, numeric) == notna_strs(u, numeric)

\* (len + batch_size - 1) // batch_size
num_batches(n, b) == (n + b - 1) \div b

\* the vector the service returns for a text
embedding_values(t) == VecBase + t

\* lines 62-63: zip(batch_texts, response) stored into the map
store_batch(m, batch) ==
  [k \in Keys(m) \cup Range(batch) |->
     IF k \in Range(batch) THEN embedding_values(k) ELSE m[k]]

\* line 66: a pause only when another batch follows
pause_due(n, b, idx) == num_batches(n, b) > 1 /\ (idx + b) < n

\* the mutant aborts the loop at the first failing batch
next_index_abort(idx, b, n) == n
\* the except clause at lines 69-71 falls through to the next iteration of the for loop
next_index_after_error(idx, b, n) == idx + b

\* ---- the input file and the DataFrame ----
NoFile == [exists |-> FALSE, parsed |-> FALSE, columns |-> {}, nrows |-> 0, numeric |-> FALSE, job_title |-> <<>>]

TitleColumns == UNION {[1..n -> 0..MaxTitle] : n \in 0..MaxRows}

\* files that exist and parse: with a job_title column (of text or of numbers), or without one
Files ==
  {[exists |-> TRUE, parsed |-> TRUE, columns |-> {"job_title"} \cup c, nrows |-> Len(t), numeric |-> nm, job_title |-> t] :
      c \in SUBSET {"salary_in_usd"}, t \in TitleColumns, nm \in BOOLEAN}
  \cup
  {[exists |-> TRUE, parsed |-> TRUE, columns |-> c, nrows |-> n, numeric |-> FALSE, job_title |-> <<>>] :
      c \in SUBSET {"salary_in_usd"}, n \in 0..MaxRows}

EmptyDf == [columns |-> {}, nrows |-> 0, job_title |-> <<>>, job_title_embedding |-> <<>>]

\* lines 153-154: the allow-listed columns the file has (the values of the columns
\* other than job_title are carried along unchanged and read by no operation)
select_columns(f) ==
  [columns |-> f.columns \cap {"job_title", "salary_in_usd"}, nrows |-> f.nrows,
   job_title |-> f.job_title, job_title_embedding |-> <<>>]

\* the mutant never raises
raises_KeyError_never(df, col) == FALSE
\* df_selected['job_title'] at line 170
raises_KeyError(df, col) == col \notin df.columns

\* Series.map(dict) at line 193: a value that is no key becomes NaN
map_column(col, m) == [r \in DOMAIN col |-> IF col[r] \in Keys(m) THEN m[col[r]] ELSE NaN]

\* the mutant saves whenever a dataset was returned
save_reached_always(df) == TRUE
\* line 227
save_reached(df) == "job_title_embedding" \in df.columns

\* ---- the document store ----
PreDoc == [origin |-> "previous", job_title |-> None, job_title_embedding |-> None]
PreDocs(n) == [k \in 1..n |-> PreDoc]

\* the mutant leaves NaN in the documents
where_notnull_identity(x) == x
\* df.where(pd.notnull(df), None)
where_notnull(x) == IF x = NaN THEN None ELSE x

cell(df, col, seq, r) == IF col \in df.columns THEN where_notnull(seq[r]) ELSE Absent

\* line 99: one document per row, with the columns the DataFrame has
to_records(df) ==
  [r \in 1..df.nrows |->
     [job_title |-> cell(df, "job_title", df.job_title, r),
      job_title_embedding |-> cell(df, "job_title_embedding", df.job_title_embedding, r)]]

stored(batch) ==
  [k \in DOMAIN batch |->
     [origin |-> "run", job_title |-> batch[k].job_title,
      job_title_embedding |-> batch[k].job_title_embedding]]

Op(name, k, ok) == [op |-> name, batch |-> k, ok |-> ok]

\* the mutant keeps the documents of the previous run
after_delete_many_keep(coll) == coll
\* collection.delete_many({}) that succeeds
after_delete_many(coll) == <<>>

\* the mutant leaves the connection open
finally_block_noclose(c, log) == [client |-> c, ops |-> log]
\* lines 123-126
finally_block(c, log) ==
  IF c = "open" THEN [client |-> "closed", ops |-> Append(log, Op("close", 0, TRUE))]
  ELSE [client |-> c, ops |-> log]

\* the mutant catches the error of a batch inside the loop and goes on with the next one
insert_error_exit_continue(c, log, idx) ==
  [client |-> c, ops |-> log, pc |-> "sink_insert", sink_i |-> idx + SINK_BATCH_SIZE]
\* lines 121-127: an error of insert_many leaves the loop through except and finally
insert_error_exit(c, log, idx) ==
  [client |-> finally_block(c, log).client, ops |-> finally_block(c, log).ops,
   pc |-> "done", sink_i |-> idx]

\* ---- the loader: load_and_process_data up to the call of get_text_embeddings ----
Return(m) ==
  /\ job_title_to_embedding_map' = m
  /\ pc' = IF caller = "main" THEN "join" ELSE "returned"

\* pd.read_csv raises FileNotFoundError (lines 211-213)
LoadFileNotFound ==
  /\ pc = "main"
  /\ calls' = Append(calls, "load_and_process_data")
  /\ df_processed' = "None"
  /\ pc' = "dispatch"
  /\ UNCHANGED <<caller, file, df_selected, embedVars, sinkVars, outcome>>

\* pd.read_csv raises another error on a file that exists (lines 217-219)
LoadParseError ==
  /\ pc = "main"
  /\ calls' = Append(calls, "load_and_process_data")
  /\ file' = [NoFile EXCEPT !.exists = TRUE]
  /\ df_processed' = "None"
  /\ pc' = "dispatch"
  /\ UNCHANGED <<caller, df_selected, embedVars, sinkVars, outcome>>

\* lines 133-189 and 207-216 on a file that parses
LoadAndProcess(f) ==
  /\ pc = "main"
  /\ file' = f
  /\ LET sel == select_columns(f)
         unique_job_titles == unique(sel.job_title)
     IN /\ df_selected' = sel
        /\ IF raises_KeyError(sel, "job_title")
           THEN /\ df_processed' = "None"
                /\ pc' = "dispatch"
                /\ calls' = Append(calls, "load_and_process_data")
                /\ UNCHANGED <<texts, batch_size>>
           ELSE IF Len(unique_job_titles) > 0
           THEN /\ texts' = job_titles_list(unique_job_titles, f.numeric)
                /\ batch_size' = EMBEDDING_BATCH_SIZE
                /\ pc' = "embed"
                /\ calls' = calls \o <<"load_and_process_data", "get_text_embeddings">>
                /\ UNCHANGED df_processed
           ELSE /\ df_processed' = "DataFrame"
                /\ pc' = "dispatch"
                /\ calls' = Append(calls, "load_and_process_data")
                /\ UNCHANGED <<texts, batch_size>>
  /\ UNCHANGED <<caller, model, unique_texts_to_embed, i, embeddings_map,
                 job_title_to_embedding_map, requests, pauses, sinkVars, outcome>>

\* ---- the embedder: get_text_embeddings ----
\* lines 35-37
EmbedNoTexts ==
  /\ pc = "embed"
  /\ texts = <<>>
  /\ Return(EmptyMap)
  /\ UNCHANGED <<caller, loadVars, texts, batch_size, model, unique_texts_to_embed, i,
                 embeddings_map, requests, pauses, sinkVars, calls, outcome>>

\* lines 40-46: vertexai.init or from_pretrained raises
EmbedInitError ==
  /\ pc = "embed"
  /\ texts # <<>>
  /\ model' = "error"
  /\ Return(EmptyMap)
  /\ UNCHANGED <<caller, loadVars, texts, batch_size, unique_texts_to_embed, i,
                 embeddings_map, requests, pauses, sinkVars, calls, outcome>>

\* lines 40-52: the model is loaded, the unique texts are sorted
EmbedInitOK ==
  /\ pc = "embed"
  /\ texts # <<>>
  /\ model' = "loaded"
  /\ embeddings_map' = EmptyMap
  /\ unique_texts_to_embed' = sorted_unique(texts)
  /\ i' = 0
  /\ pc' = "embed_loop"
  /\ UNCHANGED <<caller, loadVars, texts, batch_size, job_title_to_embedding_map,
                 requests, pauses, sinkVars, calls, outcome>>

\* lines 54-67: one iteration whose request succeeds
EmbedBatchOK ==
  /\ pc = "embed_loop"
  /\ i < Len(unique_texts_to_embed)
  /\ LET batch_texts == Slice(unique_texts_to_embed, i, i + batch_size)
     IN /\ requests' = Append(requests, [batch |-> batch_texts, ok |-> TRUE])
        /\ embeddings_map' = store_batch(embeddings_map, batch_texts)
  /\ pauses' = IF pause_due(Len(unique_texts_to_embed), batch_size, i)
               THEN pauses + 1 ELSE pauses
  /\ i' = i + batch_size
  /\ UNCHANGED <<pc, caller, loadVars, texts, batch_size, model, unique_texts_to_embed,
                 job_title_to_embedding_map, sinkVars, calls, outcome>>

\* lines 54-60 and 69-71: one iteration whose request raises
EmbedBatchError ==
  /\ pc = "embed_loop"
  /\ i < Len(unique_texts_to_embed)
  /\ LET batch_texts == Slice(unique_texts_to_embed, i, i + batch_size)
     IN requests' = Append(requests, [batch |-> batch_texts, ok |-> FALSE])
  /\ i' = next_index_after_error(i, batch_size, Len(unique_texts_to_embed))
  /\ UNCHANGED <<pc, caller, loadVars, texts, batch_size, model, unique_texts_to_embed,
                 embeddings_map, job_title_to_embedding_map, pauses, sinkVars, calls, outcome>>

\* lines 73-74: the loop is over
EmbedReturn ==
  /\ pc = "embed_loop"
  /\ i >= Len(unique_texts_to_embed)
  /\ Return(embeddings_map)
  /\ UNCHANGED <<caller, loadVars, texts, batch_size, model, unique_texts_to_embed, i,
                 embeddings_map, requests, pauses, sinkVars, calls, outcome>>

\* ---- the loader after the embedder returned: lines 191-210 ----
JoinEmbeddings ==
  /\ pc = "join"
  /\ df_selected' =
       IF Keys(job_title_to_embedding_map) # {}
       THEN [df_selected EXCEPT
               !.columns = @ \cup {"job_title_embedding"},
               !.job_title_embedding = map_column(df_selected.job_title, job_title_to_embedding_map)]
       ELSE df_selected
  /\ df_processed' = "DataFrame"
  /\ pc' = "dispatch"
  /\ UNCHANGED <<caller, file, embedVars, sinkVars, calls, outcome>>

\* ---- __main__: lines 225-240 ----
MainDispatch ==
  /\ pc = "dispatch"
  /\ IF df_processed = "None"
     THEN /\ outcome' = "failed"
          /\ pc' = "done"
          /\ UNCHANGED calls
     ELSE IF save_reached(df_selected)
     THEN /\ pc' = "sink"
          /\ calls' = Append(calls, "save_to_mongodb")
          /\ UNCHANGED outcome
     ELSE /\ outcome' = "finished"
          /\ pc' = "done"
          /\ UNCHANGED calls
  /\ UNCHANGED <<caller, loadVars, embedVars, sinkVars>>

\* ---- the sink: save_to_mongodb ----
\* lines 85-90: MONGODB_URI is not set
SaveNoUri ==
  /\ pc = "sink"
  /\ pc' = "done"
  /\ outcome' = "finished"
  /\ UNCHANGED <<caller, loadVars, embedVars, sinkVars, calls>>

\* lines 93-95: MongoClient(mongo_uri) returns a client
SaveConnect ==
  /\ pc = "sink"
  /\ client' = "open"
  /\ ops' = Append(ops, Op("connect", 0, TRUE))
  /\ pc' = "sink_prepare"
  /\ UNCHANGED <<caller, loadVars, embedVars, records, sink_i, collection, calls, outcome>>

\* lines 93-95 and 121-127: MongoClient(mongo_uri) raises, client stays None
SaveConnectError ==
  /\ pc = "sink"
  /\ LET exit == finally_block(client, Append(ops, Op("connect", 0, FALSE)))
     IN /\ client' = exit.client
        /\ ops' = exit.ops
  /\ pc' = "done"
  /\ outcome' = "finished"
  /\ UNCHANGED <<caller, loadVars, embedVars, records, sink_i, collection, calls>>

\* lines 96-99: the collection handle and the documents
SavePrepare ==
  /\ pc = "sink_prepare"
  /\ records' = to_records(df_selected)
  /\ pc' = "sink_clear"
  /\ UNCHANGED <<caller, loadVars, embedVars, client, sink_i, collection, ops, calls, outcome>>

\* lines 96-99 and 121-127: an error before any request to the store
SavePrepareError ==
  /\ pc = "sink_prepare"
  /\ LET exit == finally_block(client, ops)
     IN /\ client' = exit.client
        /\ ops' = exit.ops
  /\ pc' = "done"
  /\ outcome' = "finished"
  /\ UNCHANGED <<caller, loadVars, embedVars, records, sink_i, collection, calls>>

\* lines 101-109: delete_many({}) succeeds
SaveClear ==
  /\ pc = "sink_clear"
  /\ collection' = after_delete_many(collection)
  /\ ops' = Append(ops, Op("delete_many", 0, TRUE))
  /\ sink_i' = 0
  /\ pc' = "sink_insert"
  /\ UNCHANGED <<caller, loadVars, embedVars, client, records, calls, outcome>>

\* lines 101-102 and 121-127: delete_many({}) raises; the store may have removed
\* the first documents already
SaveClearError(removed) ==
  /\ pc = "sink_clear"
  /\ removed \in 0..Len(collection)
  /\ collection' = SubSeq(collection, removed + 1, Len(collection))
  /\ LET exit == finally_block(client, Append(ops, Op("delete_many", 0, FALSE)))
     IN /\ client' = exit.client
        /\ ops' = exit.ops
  /\ pc' = "done"
  /\ outcome' = "finished"
  /\ UNCHANGED <<caller, loadVars, embedVars, records, sink_i, calls>>

\* lines 111-117: one iteration whose insert_many succeeds
SaveInsert ==
  /\ pc = "sink_insert"
  /\ sink_i < Len(records)
  /\ LET batch == Slice(records, sink_i, sink_i + SINK_BATCH_SIZE)
     IN collection' = collection \o stored(batch)
  /\ ops' = Append(ops, Op("insert_many", (sink_i \div SINK_BATCH_SIZE) + 1, TRUE))
  /\ sink_i' = sink_i + SINK_BATCH_SIZE
  /\ UNCHANGED <<pc, caller, loadVars, embedVars, client, records, calls, outcome>>

\* lines 111-116 and 121-127: insert_many raises.  insert_many is ordered and not
\* atomic: the documents in front of the failing one are in the collection.
SaveInsertError(written) ==
  /\ pc = "sink_insert"
  /\ sink_i < Len(records)
  /\ LET batch == Slice(records, sink_i, sink_i + SINK_BATCH_SIZE)
         exit == insert_error_exit(
                   client,
                   Append(ops, Op("insert_many", (sink_i \div SINK_BATCH_SIZE) + 1, FALSE)),
                   sink_i)
     IN /\ written \in 0..Len(batch)
        /\ collection' = collection \o stored(SubSeq(batch, 1, written))
        /\ client' = exit.client
        /\ ops' = exit.ops
        /\ pc' = exit.pc
        /\ sink_i' = exit.sink_i
        /\ outcome' = IF exit.pc = "done" THEN "finished" ELSE outcome
  /\ UNCHANGED <<caller, loadVars, embedVars, records, calls>>

\* lines 119 and 123-127: the loop is over
SaveFinish ==
  /\ pc = "sink_insert"
  /\ sink_i >= Len(records)
  /\ LET exit == finally_block(client, ops)
     IN /\ client' = exit.client
        /\ ops' = exit.ops
  /\ pc' = "done"
  /\ outcome' = "finished"
  /\ UNCHANGED <<caller, loadVars, embedVars, records, sink_i, collection, calls>>

\* ---- specifications ----
InitCommon ==
  /\ file = NoFile
  /\ df_selected = EmptyDf
  /\ df_processed = "pending"
  /\ model = "unset"
  /\ unique_texts_to_embed = <<>>
  /\ i = 0
  /\ embeddings_map = EmptyMap
  /\ job_title_to_embedding_map = EmptyMap
  /\ requests = <<>>
  /\ pauses = 0
  /\ client = "None"
  /\ records = <<>>
  /\ sink_i = 0
  /\ ops = <<>>
  /\ outcome = "running"

\* the script is run: python etl.py
Init ==
  /\ InitCommon
  /\ pc = "main"
  /\ caller = "main"
  /\ texts = <<>>
  /\ batch_size = EMBEDDING_BATCH_SIZE
  /\ calls = <<>>
  /\ collection \in {PreDocs(n) : n \in 0..MaxPreexisting}

Next ==
  \/ LoadFileNotFound
  \/ LoadParseError
  \/ \E f \in Files : LoadAndProcess(f)
  \/ EmbedNoTexts
  \/ EmbedInitError
  \/ EmbedInitOK
  \/ EmbedBatchOK
  \/ EmbedBatchError
  \/ EmbedReturn
  \/ JoinEmbeddings
  \/ MainDispatch
  \/ SaveNoUri
  \/ SaveConnect
  \/ SaveConnectError
  \/ SavePrepare
  \/ SavePrepareError
  \/ SaveClear
  \/ \E removed \in 0..MaxPreexisting : SaveClearError(removed)
  \/ SaveInsert
  \/ \E written \in 0..SINK_BATCH_SIZE : SaveInsertError(written)
  \/ SaveFinish

Spec == Init /\ [][Next]_vars

\* get_text_embeddings called on any list of texts, duplicates included, with any batch size
TextLists == UNION {[1..n -> 1..MaxText] : n \in 0..MaxTexts}

InitEmbed ==
  /\ InitCommon
  /\ pc = "embed"
  /\ caller = "direct"
  /\ texts \in TextLists
  /\ batch_size \in 1..MaxBatchSize
  /\ calls = <<"get_text_embeddings">>
  /\ collection = <<>>

NextEmbed ==
  \/ EmbedNoTexts
  \/ EmbedInitError
  \/ EmbedInitOK
  \/ EmbedBatchOK
  \/ EmbedBatchError
  \/ EmbedReturn

SpecEmbed == InitEmbed /\ [][NextEmbed]_vars

\* ---- notions the claims use ----
Called(fn) == fn \in Range(calls)
\* the distinct, non-missing values of the text column, as texts
NonMissingTexts == {str(c, file.numeric) : c \in Range(file.job_title) \ {NaN}}
\* the rows of the file whose job title is missing
MissingRows == {r \in 1..file.nrows : "job_title" \in file.columns /\ file.job_title[r] = NaN}
\* the texts of the requests that succeeded, and of those that failed
OkTexts == UNION {Range(requests[k].batch) : k \in {j \in DOMAIN requests : requests[j].ok}}
FailedTexts == UNION {Range(requests[k].batch) : k \in {j \in DOMAIN requests : ~requests[j].ok}}
\* get_text_embeddings returned from its loop
EmbedderDone == pc = "returned" /\ model = "loaded"
\* the sink stage was entered and the run is over
SinkOver == pc = "done" /\ Called("save_to_mongodb")
ClearOK == \E k \in DOMAIN ops : ops[k] = Op("delete_many", 0, TRUE)
FailedInserts == {k \in DOMAIN ops : ops[k].op = "insert_many" /\ ~ops[k].ok}
\* the documents of the first n rows, as the store holds them
Committed(n) == stored(SubSeq(records, 1, n))
OnlyPreviousDocs == \A k \in DOMAIN collection : collection[k].origin = "previous"
Rank(o) == CASE o.op = "connect" -> 1 [] o.op = "delete_many" -> 2
             [] o.op = "insert_many" -> 3 [] o.op = "close" -> 4

C2_MissingTextColumnHalts ==
  (file.parsed /\ "job_title" \notin file.columns)
  => /\ df_processed = "None"
     /\ ~Called("get_text_embeddings")
     /\ model = "unset"
     /\ requests = <<>>
     /\ ~Called("save_to_mongodb")
     /\ client = "None"
     /\ ops = <<>>
     /\ OnlyPreviousDocs
     /\ pc \in {"dispatch", "done"}
     /\ (pc = "done" => outcome = "failed")

C2_Witness ==
  /\ pc = "done"
  /\ outcome = "failed"
  /\ file.parsed
  /\ file.columns = {"salary_in_usd"}
  /\ file.nrows > 0

C4_KeysAreInputTexts ==
  /\ Range(texts) \subseteq NonMissingTexts
  /\ Keys(embeddings_map) \subseteq Range(texts)
  /\ Keys(embeddings_map) \subseteq OkTexts
  /\ Keys(embeddings_map) \cap FailedTexts = {}
  /\ Keys(job_title_to_embedding_map) \subseteq Keys(embeddings_map)
  /\ \A r \in DOMAIN df_selected.job_title_embedding :
       \/ df_selected.job_title_embedding[r] = NaN
       \/ \E t \in OkTexts : df_selected.job_title_embedding[r] = embedding_values(t)

C4_Witness ==
  /\ pc = "dispatch"
  /\ NaN \in Range(file.job_title)
  /\ FailedTexts # {}
  /\ Keys(job_title_to_embedding_map) # {}
  /\ "job_title_embedding" \in df_selected.columns

\* ---- C5 ----
\* C5 (as stated): after a sink run whose clear and inserts all succeed the collection
\* holds exactly the rows of the dataset; after a run aborted by an error in the k-th
\* insert batch it holds exactly the rows of the k-1 batches before it, and no document
\* of the failed or a later batch.
C5_DocumentCount ==
  (SinkOver /\ ClearOK)
  => IF FailedInserts = {}
     THEN /\ collection = Committed(Len(records))
          /\ Len(collection) = df_selected.nrows
     ELSE \A k \in FailedInserts :
            collection = Committed((ops[k].batch - 1) * SINK_BATCH_SIZE)

\* C5 (amended): after a sink run whose clear and inserts all succeed the collection
\* holds exactly the rows of the dataset and none of the previous documents; after a
\* run aborted by an error in the k-th insert batch it holds the rows of the k-1 batches
\* before it, followed by those documents of the k-th batch that the store had written
\* before the error (possibly none, possibly all), and no document of a later batch.
C5_DocumentCountPartialBatch ==
  (SinkOver /\ ClearOK)
  => IF FailedInserts = {}
     THEN /\ collection = Committed(Len(records))
          /\ Len(collection) = df_selected.nrows
     ELSE \A k \in FailedInserts :
            /\ Len(collection) >= (ops[k].batch - 1) * SINK_BATCH_SIZE
            /\ Len(collection) <= Min(ops[k].batch * SINK_BATCH_SIZE, Len(records))
            /\ collection = Committed(Len(collection))

C5_Witness ==
  /\ SinkOver
  /\ ClearOK
  /\ \E k \in FailedInserts : ops[k].batch = 2
  /\ collection = Committed(SINK_BATCH_SIZE)

\* ---- C6 ----
\* C6: on every exit path of save_to_mongodb a connection that was opened is closed
\* when the stage has returned, the close is the last operation issued to the store
\* (no delete or insert follows it), and the connection is open only inside the stage.
C6_ConnectionReleased ==
  /\ (pc = "done" => client # "open")
  /\ \A k \in DOMAIN ops : ops[k].op = "close" => k = Len(ops)
  /\ (client = "closed") <=> (ops # <<>> /\ ops[Len(ops)].op = "close")
  /\ (pc = "done" /\ ops # <<>> /\ ops[1] = Op("connect", 0, TRUE))
       => ops[Len(ops)].op = "close"
  /\ (client = "open") => pc \in {"sink_prepare", "sink_clear", "sink_insert"}

C6_Witness ==
  /\ pc = "done"
  /\ client = "closed"
  /\ FailedInserts # {}
  /\ ops[Len(ops)].op = "close"

\* ---- C7 ----
\* C7 (as stated): in every run that produces a dataset, each row whose job title is
\* missing is excluded from the embedding key set, is retained in the dataset, and
\* carries an embedding field that is present and null.
C7_MissingTitleRowsNullEmbedding ==
  (pc = "done" /\ df_processed = "DataFrame")
  => \A r \in MissingRows :
       /\ NanText \notin Keys(job_title_to_embedding_map)
       /\ df_selected.nrows = file.nrows
       /\ df_selected.job_title[r] = NaN
       /\ "job_title_embedding" \in df_selected.columns
       /\ df_selected.job_title_embedding[r] = NaN

\* C7 (amended): in every run that produces a dataset, each row whose job title is
\* missing is excluded from the embedding key set and from every request, and is
\* retained in the dataset.  When the embedding map is not empty the row carries a null
\* embedding field: NaN in the dataset, and an explicit null (present, not omitted) in
\* the document made of it and in the document stored.  When the embedding map is empty
\* the dataset has no embedding field at all.
C7_MissingTitleRowsRetained ==
  (df_processed = "DataFrame")
  => \A r \in MissingRows :
       /\ NanText \notin Keys(job_title_to_embedding_map) \cup Range(texts) \cup OkTexts \cup FailedTexts
       /\ df_selected.nrows = file.nrows
       /\ df_selected.job_title[r] = NaN
       /\ IF Keys(job_title_to_embedding_map) # {}
          THEN /\ "job_title_embedding" \in df_selected.columns
               /\ df_selected.job_title_embedding[r] = NaN
          ELSE "job_title_embedding" \notin df_selected.columns
       /\ (records # <<>> => /\ Len(records) = file.nrows
                            /\ records[r].job_title_embedding = None)
       /\ (r \in DOMAIN collection /\ collection[r].origin = "run")
            => collection[r].job_title_embedding = None

C7_Witness ==
  /\ pc = "done"
  /\ df_processed = "DataFrame"
  /\ Keys(job_title_to_embedding_map) # {}
  /\ \E r \in MissingRows :
       /\ r \in DOMAIN collection
       /\ collection[r].origin = "run"
       /\ collection[r].job_title_embedding = None
       /\ df_selected.job_title_embedding[r] = NaN

\* ---- C8 ----
\* C8: the operations the sink issues to the store come in the order connect, delete,
\* insert 1..n, close and never go back: connect, delete and close are issued at most
\* once, every insert comes after the one successful delete, the inserts carry the
\* batch numbers 1, 2, ... in order, a delete or insert that fails is followed by the
\* close at once and by nothing else, and a run without a failure issues all n inserts.
C8_SinkOrdering ==
  /\ \A j, k \in DOMAIN ops : j < k => Rank(ops[j]) <= Rank(ops[k])
  /\ \A j, k \in DOMAIN ops : (j < k /\ ops[j].op = ops[k].op) => ops[k].op = "insert_many"
  /\ \A k \in DOMAIN ops :
       ops[k].op = "insert_many"
         => /\ k > 2
            /\ ops[1] = Op("connect", 0, TRUE)
            /\ ops[2] = Op("delete_many", 0, TRUE)
            /\ ops[k].batch = k - 2
  /\ \A k \in DOMAIN ops :
       (ops[k].op \in {"delete_many", "insert_many"} /\ ~ops[k].ok)
         => /\ Len(ops) = k + 1
            /\ ops[k + 1].op = "close"
            /\ pc = "done"
  /\ (pc \in {"sink_prepare", "sink_clear"}) => ops = <<Op("connect", 0, TRUE)>>
  /\ (pc = "sink_insert")
       => /\ ops[Len(ops)].ok
          /\ ops[Len(ops)].op \in {"delete_many", "insert_many"}
          /\ (Len(ops) - 2) * SINK_BATCH_SIZE = sink_i
  /\ (SinkOver /\ ClearOK /\ FailedInserts = {})
       => /\ Len(ops) = 3 + num_batches(Len(records), SINK_BATCH_SIZE)
          /\ ops[Len(ops)].op = "close"

C8_Witness ==
  /\ SinkOver
  /\ Len(ops) >= 5
  /\ \A k \in DOMAIN ops : ops[k].ok
  /\ ops[3].op = "insert_many"
  /\ ops[4].op = "insert_many"
  /\ ops[Len(ops)].op = "close"

\* ---- C9 ----
\* C9: in a run of get_text_embeddings with k batch requests a pause is taken between
\* every two successive requests, whether or not the earlier one succeeded, and none
\* after the last: k - 1 pauses when k > 1, none when k = 1.
C9_PauseBetweenBatches ==
  EmbedderDone
  => pauses = IF Len(requests) > 1 THEN Len(requests) - 1 ELSE 0

\* ---- C10 ----
\* C10: for n distinct texts and batch size b, get_text_embeddings issues ceil(n/b)
\* requests; every batch has b texts except the last, which has between 1 and b; the
\* j-th text of the k-th batch is the text with exactly (k-1)*b + j - 1 smaller distinct
\* texts, so the batches are the consecutive slices of the sorted distinct texts,
\* whatever the order and the duplicates of the input list.
C10_BatchPartitioning ==
  EmbedderDone
  => LET n == Cardinality(Range(texts))
         b == batch_size
         smaller(t) == Cardinality({u \in Range(texts) : u < t})
     IN /\ Len(requests) * b >= n
        /\ (Len(requests) - 1) * b < n
        /\ \A k \in DOMAIN requests :
             /\ Len(requests[k].batch) >= 1
             /\ Len(requests[k].batch) = IF k < Len(requests) THEN b ELSE n - (k - 1) * b
             /\ \A j \in DOMAIN requests[k].batch :
                  /\ requests[k].batch[j] \in Range(texts)
                  /\ smaller(requests[k].batch[j]) = (k - 1) * b + j - 1

C10_Witness ==
  /\ EmbedderDone
  /\ Len(texts) > Cardinality(Range(texts))
  /\ texts[1] > texts[2]
  /\ Len(requests) = 2
  /\ batch_size = 2
  /\ Len(requests[2].batch) = 1

====
